---- MODULE Spec2Model ----
(***************************************************************************)
(* MarketMind: the session state machine of src/app.py (a Streamlit        *)
(* script) and the completion wrappers of src/ai_services.py.              *)
(*                                                                         *)
(* A Streamlit script is executed top to bottom once per user action: one  *)
(* action of this model is one script run (session init, sidebar, router)  *)
(* with at most one button reporting a click.  st.rerun() ends the run and *)
(* queues a fresh run without a click: pc = "rerun".                       *)
(*                                                                         *)
(* Texts are sequences of words; an f-string is a concatenation and the    *)
(* empty string is the empty sequence.                                     *)
(***************************************************************************)
EXTENDS Integers, Sequences, FiniteSets, TLC

VARIABLES
    session_state,  \* st.session_state: a function from the keys present to their values
    pc,             \* "start" before the first script run, "rerun" when st.rerun() is pending, "idle" when the UI waits for input
    shown,          \* what the sidebar rendered in the last script run: the two history lengths
    now,            \* datetime.datetime.now(), reduced to its month
    calls,          \* completion requests made since the last user action
    fault,          \* TRUE when a script run ended with an uncaught exception
    context,        \* the context string the last script run sent for a chat message ("" if none)
    dashboard,      \* what the last script run computed for the Dashboard (NoView if it drew another page)
    last            \* the most recent operation and its inputs

vars == <<session_state, pc, shown, now, calls, fault, context, dashboard, last>>

----------------------------------------------------------------------------
(* Bounds *)

\* Records and chat turns a session may hold in total (histories are unbounded in the code).
MaxItems == 2

\* Records per history in the sessions the Dashboard analytics are checked on.
MaxRecords == 3

----------------------------------------------------------------------------
(* Page configuration: src/app.py 36-41 *)

DEFAULT_PAGE == "Dashboard"

VALID_PAGES ==
    {"Dashboard", "Campaign", "Sales", "Lead", "Summary", "Research", "Chat",
     "History", "ChatHistory"}

\* The sidebar navigation targets.
nav_items == {"Dashboard", "Campaign", "Sales", "Lead", "Summary", "Research", "Chat"}

\* Python's None, as a record so that it compares with history records.
None == [none |-> TRUE]

Keys == {"page", "tool_history", "chat_history", "current_chat", "selected_item"}

Defaults ==
    [page |-> DEFAULT_PAGE, tool_history |-> <<>>, chat_history |-> <<>>,
     current_chat |-> <<>>, selected_item |-> None]

\* Pages a session may already hold under "page" when the script first runs
\* (session state outlives a hot reload of an edited script): one name that is
\* no longer a page, and some that are.
StoredPages == {"Settings", "History", "Chat", "Lead"}

\* Months the clock passes through, in order.
Months == <<"2024-03", "2024-04">>

----------------------------------------------------------------------------
(* Texts *)

\* Python truthiness of a str: non-empty.
Truthy(text) == Len(text) > 0

WhiteSpace == {" "}

IsBlank(text) == \A i \in 1..Len(text) : text[i] \in WhiteSpace

\* Words of which another word is a proper substring.
HasSubstring(word, pat) == word = pat \/ (word = "Higher" /\ pat = "High")

\* pat in text, for a one-word pat.
In(pat, text) == \E i \in 1..Len(text) : HasSubstring(text[i], pat)

\* The text inputs typed into the tool forms, and into the chat box.
ToolInputs == {<<"crm">>}
ChatInputs == {<<>>, <<" ">>, <<"hi">>}

IsPrefix(s, t) == Len(s) <= Len(t) /\ SubSeq(t, 1, Len(s)) = s

Reversed(s) == [i \in 1..Len(s) |-> s[Len(s) + 1 - i]]

----------------------------------------------------------------------------
(* The completion service and its wrappers *)

\* A function result: a returned value or a raised exception with its message.
Ret(v) == [raised |-> FALSE, value |-> v]
Raise(msg) == [raised |-> TRUE, value |-> msg]

\* What the HTTP request of groq_generate can meet:
\*   choices: a JSON body with choices[0].message.content = text
\*   error:   a JSON body with error.message = text
\*   other:   a JSON body with neither key
\*   raise:   an exception inside the try block (requests.post fails or times
\*            out, the body is not JSON, choices is empty), str(e) = text
\* The outcomes the session draws from: a completion and a network failure.
Outcomes ==
    { [kind |-> "choices", text |-> <<"High", "Intent">>],
      [kind |-> "raise",   text |-> <<"timeout">>] }

NoReply == [kind |-> "none", text |-> <<>>]

Failed(o) == o.kind \in {"error", "other", "raise"}

groq_generate(o) ==
    CASE o.kind = "choices" -> Ret(o.text)
      [] o.kind = "error"   -> Ret(<<"Groq API Error:">> \o o.text)
      [] o.kind = "other"   -> Ret(<<"Unexpected response:", "{}">>)
      [] OTHER              -> Ret(<<"Exception occurred:">> \o o.text)

safe_groq(o) ==
    LET r == groq_generate(o)
    IN  IF r.raised THEN <<"Warning", "Groq API Error:">> \o r.value ELSE r.value

\* hf_lead_score with the two label tests in the other order.
hf_lead_score_MediumFirst(o) ==
    LET r == groq_generate(o)
    IN  IF r.raised THEN r
        ELSE IF In("Medium", r.value) THEN Ret([score |-> 65, intent |-> <<"Medium", "Intent">>])
        ELSE IF In("High", r.value) THEN Ret([score |-> 90, intent |-> <<"High", "Intent">>])
        ELSE Ret([score |-> 30, intent |-> <<"Low", "Intent">>])

hf_lead_score(o) ==
    LET r == groq_generate(o)
    IN  IF r.raised THEN r
        ELSE IF In("High", r.value) THEN Ret([score |-> 90, intent |-> <<"High", "Intent">>])
        ELSE IF In("Medium", r.value) THEN Ret([score |-> 65, intent |-> <<"Medium", "Intent">>])
        ELSE Ret([score |-> 30, intent |-> <<"Low", "Intent">>])

safe_hf(o) ==
    LET r == hf_lead_score(o)
    IN  IF r.raised THEN [score |-> 0, intent |-> <<"Error:">> \o r.value] ELSE r.value

\* f"Score: {result.get('score',0)} | Intent: {result.get('intent','')}"
LeadOutput(result) == <<"Score:", ToString(result.score), "|", "Intent:">> \o result.intent

----------------------------------------------------------------------------
(* Session init: src/app.py 46-57 *)

\* SessionInit without the check of lines 56-57.
SessionInit_NoFallback(ss) ==
    [k \in Keys |-> IF k \in DOMAIN ss THEN ss[k] ELSE Defaults[k]]

SessionInit(ss) ==
    LET filled == [k \in Keys |-> IF k \in DOMAIN ss THEN ss[k] ELSE Defaults[k]]
    IN  IF filled.page \notin VALID_PAGES
        THEN [filled EXCEPT !.page = DEFAULT_PAGE]
        ELSE filled

----------------------------------------------------------------------------
(* Helpers: src/app.py 77-129 *)

\* save_tool_history that appends the record twice.
save_tool_history_Twice(ss, feature, user_input, output) ==
    LET rec == [feature |-> feature, input |-> user_input, output |-> output,
                month |-> Months[now]]
    IN  [ss EXCEPT !.tool_history = @ \o <<rec, rec>>]

\* save_tool_history that puts the newest record first.
save_tool_history_Front(ss, feature, user_input, output) ==
    [ss EXCEPT !.tool_history =
        <<[feature |-> feature, input |-> user_input, output |-> output,
           month |-> Months[now]]>> \o @]

save_tool_history(ss, feature, user_input, output) ==
    [ss EXCEPT !.tool_history =
        Append(@, [feature |-> feature, input |-> user_input, output |-> output,
                   month |-> Months[now]])]

\* save_chat_history that does not reset the transcript.
save_chat_history_KeepsChat(ss) ==
    IF Truthy(ss.current_chat)
    THEN [ss EXCEPT !.chat_history =
                        Append(@, [messages |-> ss.current_chat, month |-> Months[now]])]
    ELSE ss

\* save_chat_history without its guard.
save_chat_history_Unguarded(ss) ==
    [ss EXCEPT !.chat_history =
                   Append(@, [messages |-> ss.current_chat, month |-> Months[now]]),
               !.current_chat = <<>>]

save_chat_history(ss) ==
    IF Truthy(ss.current_chat)
    THEN [ss EXCEPT !.chat_history =
                        Append(@, [messages |-> ss.current_chat, month |-> Months[now]]),
                    !.current_chat = <<>>]
    ELSE ss

\* go that sends an unknown target to the default page.
go_FallsBack(ss, page, keep) ==
    [ss |-> [ss EXCEPT !.page = IF page \in VALID_PAGES THEN page ELSE DEFAULT_PAGE,
                       !.selected_item = IF keep THEN @ ELSE None],
     rerun |-> TRUE]

\* go that starts a new transcript on every navigation.
go_ResetsChat(ss, page, keep) ==
    IF page \in VALID_PAGES
    THEN [ss |-> [ss EXCEPT !.page = page,
                            !.selected_item = IF keep THEN @ ELSE None,
                            !.current_chat = <<>>],
          rerun |-> TRUE]
    ELSE [ss |-> ss, rerun |-> FALSE]

\* go that never clears the selection.
go_NeverClears(ss, page, keep) ==
    IF page \in VALID_PAGES
    THEN [ss |-> [ss EXCEPT !.page = page], rerun |-> TRUE]
    ELSE [ss |-> ss, rerun |-> FALSE]

\* go that ignores keep.
go_AlwaysClears(ss, page, keep) ==
    IF page \in VALID_PAGES
    THEN [ss |-> [ss EXCEPT !.page = page, !.selected_item = None], rerun |-> TRUE]
    ELSE [ss |-> ss, rerun |-> FALSE]

\* go(page, keep): the session state after the call, and whether st.rerun() was raised.
go(ss, page, keep) ==
    IF page \in VALID_PAGES
    THEN [ss |-> [ss EXCEPT !.page = page,
                            !.selected_item = IF keep THEN @ ELSE None],
          rerun |-> TRUE]
    ELSE [ss |-> ss, rerun |-> FALSE]

----------------------------------------------------------------------------
(* Session size, for the bound *)

RECURSIVE Turns(_)
Turns(chats) ==
    IF chats = <<>> THEN 0
    ELSE (Len(Head(chats).messages) + 1) \div 2 + Turns(Tail(chats))

Items(ss) ==
    Len(ss.tool_history) + (Len(ss.current_chat) + 1) \div 2 + Turns(ss.chat_history)

----------------------------------------------------------------------------
(* Dashboard analytics: src/app.py 175-207 *)

\* [item for item in data if item["month"] == current_month]
RECURSIVE InMonth(_, _)
InMonth(data, current_month) ==
    IF data = <<>> THEN <<>>
    ELSE (IF Head(data).month = current_month THEN <<Head(data)>> ELSE <<>>)
            \o InMonth(Tail(data), current_month)

\* monthly_usage that filters the tool records only.
monthly_usage_AllChats(tool_data, chat_data, current_month) ==
    InMonth(tool_data, current_month) \o chat_data

\* src/app.py 184-188
monthly_usage(tool_data, chat_data, current_month) ==
    InMonth(tool_data, current_month) \o InMonth(chat_data, current_month)

\* The index of df["feature"].value_counts(): the distinct features in order of
\* first appearance (the order in which pandas' hash table yields them) ...
RECURSIVE FirstSeen(_)
FirstSeen(tool_data) ==
    IF tool_data = <<>> THEN <<>>
    ELSE LET rest == FirstSeen(SubSeq(tool_data, 1, Len(tool_data) - 1))
             f    == tool_data[Len(tool_data)].feature
         IN  IF \E i \in 1..Len(rest) : rest[i] = f THEN rest ELSE Append(rest, f)

\* ... and its values.
feature_counts(tool_data) ==
    [f \in {tool_data[i].feature : i \in 1..Len(tool_data)} |->
        Cardinality({i \in 1..Len(tool_data) : tool_data[i].feature = f})]

\* most_used that reports the feature of the first record.
most_used_FirstRecord(tool_data) ==
    IF tool_data = <<>> THEN "N/A" ELSE tool_data[1].feature

\* feature_counts.idxmax(): value_counts sorts by count, descending and stably,
\* and idxmax takes the first row with the largest count.
most_used(tool_data) ==
    IF tool_data = <<>> THEN "N/A"
    ELSE LET order  == FirstSeen(tool_data)
             counts == feature_counts(tool_data)
             best   == CHOOSE j \in 1..Len(order) :
                          /\ \A k \in 1..Len(order) : counts[order[k]] <= counts[order[j]]
                          /\ \A k \in 1..(j - 1) : counts[order[k]] < counts[order[j]]
         IN  order[best]

NoView == [none |-> TRUE]

\* What a run that draws the Dashboard computes from the session state.
Metrics(ss) ==
    [current_month |-> Months[now],
     monthly_usage |-> monthly_usage(ss.tool_history, ss.chat_history, Months[now]),
     feature_counts |-> feature_counts(ss.tool_history),
     most_used |-> most_used(ss.tool_history)]

\* The Dashboard branch is drawn by the runs that reach the router on that page.
View(r) == IF ~r.rerun /\ r.ss.page = "Dashboard" THEN Metrics(r.ss) ELSE NoView

\* "\n".join([f"{m['role']}: {m['content']}" for m in current_chat])
RECURSIVE Flatten(_)
Flatten(chat) ==
    IF chat = <<>> THEN <<>>
    ELSE LET line == <<Head(chat).role, ":">> \o Head(chat).content
         IN  IF Len(chat) = 1 THEN line ELSE line \o <<"\n">> \o Flatten(Tail(chat))

----------------------------------------------------------------------------
(* One script run *)

\* The result of a script run: the session state it leaves, whether it ended in
\* st.rerun(), the completion requests it made, and whether it ended with an
\* uncaught exception.
Run(ss, rerun, made, faulted) ==
    [ss |-> ss, rerun |-> rerun, made |-> made, fault |-> faulted, context |-> <<>>]

\* An operation: its name, its target, feature or sidebar position, the keep
\* flag, the text typed, and the outcome of the completion request whose reply it stores (if any).
Op(op, arg, keep, text, o) ==
    [op |-> op, arg |-> arg, keep |-> keep, text |-> text, o |-> o]

\* A script run that ends in go(page, keep) with session state ss.
Went(ss, page, keep) ==
    LET g == go(ss, page, keep) IN Run(g.ss, g.rerun, 0, FALSE)

\* Render whose detail views do not test the selected item.
Render_NoGuard(ss) ==
    CASE ss.page = "Dashboard" ->
            IF Len(ss.tool_history) + Len(ss.chat_history) > 0
            THEN Run(ss, FALSE, 1, FALSE)
            ELSE Run(ss, FALSE, 0, FALSE)
      [] ss.page = "History" ->
            Run(ss, FALSE, 0, "feature" \notin DOMAIN ss.selected_item)
      [] ss.page = "ChatHistory" ->
            Run(ss, FALSE, 0, "messages" \notin DOMAIN ss.selected_item)
      [] OTHER -> Run(ss, FALSE, 0, FALSE)

\* The router (src/app.py 166-384) when no button of the page reports a click.
\* The Dashboard makes its insight request on every render with any usage; the
\* reply is displayed and exported, never stored.
Render(ss) ==
    CASE ss.page = "Dashboard" ->
            IF Len(ss.tool_history) + Len(ss.chat_history) > 0
            THEN Run(ss, FALSE, 1, FALSE)
            ELSE Run(ss, FALSE, 0, FALSE)
      [] ss.page = "History" ->
            IF ss.selected_item # None
            THEN Run(ss, FALSE, 0, "feature" \notin DOMAIN ss.selected_item)
            ELSE Went(ss, "Dashboard", FALSE)
      [] ss.page = "ChatHistory" ->
            IF ss.selected_item # None
            THEN Run(ss, FALSE, 0, "messages" \notin DOMAIN ss.selected_item)
            ELSE Went(ss, "Dashboard", FALSE)
      [] OTHER -> Run(ss, FALSE, 0, FALSE)

\* The sidebar of a run lists the histories as they are when the run starts.
Sidebar(ss) == [tools |-> Len(ss.tool_history), chats |-> Len(ss.chat_history)]

\* A run started by a user action: the request counter restarts.
Act(ss, r, op) ==
    /\ session_state' = r.ss
    /\ pc' = IF r.rerun THEN "rerun" ELSE "idle"
    /\ shown' = Sidebar(ss)
    /\ calls' = r.made
    /\ fault' = r.fault
    /\ context' = r.context
    /\ dashboard' = View(r)
    /\ last' = op
    /\ UNCHANGED now

\* A run started by the runtime (the first run, or after st.rerun()).
Auto(ss, r) ==
    /\ session_state' = r.ss
    /\ pc' = IF r.rerun THEN "rerun" ELSE "idle"
    /\ shown' = Sidebar(ss)
    /\ calls' = calls + r.made
    /\ fault' = r.fault
    /\ context' = r.context
    /\ dashboard' = View(r)
    /\ UNCHANGED <<now, last>>

----------------------------------------------------------------------------
(* Initial state and actions *)

\* A fresh session holds no key; a session that outlived a reload holds a page.
Stored == {[k \in {} |-> None]} \cup {[page |-> p] : p \in StoredPages}

StoredPage(ss) == IF "page" \in DOMAIN ss THEN ss.page ELSE ""

Init ==
    /\ session_state \in Stored
    /\ pc = "start"
    /\ shown = [tools |-> 0, chats |-> 0]
    /\ now = 1
    /\ calls = 0
    /\ fault = FALSE
    /\ context = <<>>
    /\ dashboard = NoView
    /\ last = Op("start", StoredPage(session_state), FALSE, <<>>, NoReply)

\* The first script run of the session.
Start ==
    /\ pc = "start"
    /\ LET ss == SessionInit(session_state) IN Auto(ss, Render(ss))

\* The run queued by st.rerun().
Rerun ==
    /\ pc = "rerun"
    /\ LET ss == SessionInit(session_state) IN Auto(ss, Render(ss))

\* select that also starts a new transcript.
select_DropsChat(ss, history, k) ==
    [ss EXCEPT !.selected_item = Reversed(history)[k], !.current_chat = <<>>]

\* select that keeps a summary of the entry instead of the entry.
select_Summary(ss, history, k) ==
    [ss EXCEPT !.selected_item = [month |-> Reversed(history)[k].month]]

\* st.session_state.selected_item = item, for the k-th entry of reversed(history):
\* src/app.py 153-155 and 158-160.
select(ss, history, k) ==
    [ss EXCEPT !.selected_item = Reversed(history)[k]]

\* A sidebar navigation button: src/app.py 146-148.
ClickNav ==
    /\ pc = "idle"
    /\ \E p \in nav_items :
          LET ss == SessionInit(session_state)
          IN  Act(ss, Went(ss, p, FALSE), Op("nav", p, FALSE, <<>>, NoReply))

\* The k-th tool entry of the sidebar as last rendered: src/app.py 153-156.
\* The click is delivered to the button that carries the same widget identity in
\* the new run; the list it enumerates is the current one.
ClickTool ==
    /\ pc = "idle"
    /\ \E k \in 1..shown.tools :
          LET ss == SessionInit(session_state)
          IN  Act(ss, Went(select(ss, ss.tool_history, k), "History", TRUE),
                  Op("select_tool", ToString(k), TRUE, <<>>, NoReply))

\* The k-th chat entry of the sidebar: src/app.py 158-161.
ClickChat ==
    /\ pc = "idle"
    /\ \E k \in 1..shown.chats :
          LET ss == SessionInit(session_state)
          IN  Act(ss, Went(select(ss, ss.chat_history, k), "ChatHistory", TRUE),
                  Op("select_chat", ToString(k), TRUE, <<>>, NoReply))

\* A click on a sidebar entry whose label changed since it was rendered (the
\* history grew after the sidebar was drawn): where the widget identity
\* includes the label, no button reports the click and the run only renders.
ClickLost ==
    /\ pc = "idle"
    /\ LET ss == SessionInit(session_state)
       IN  /\ \/ shown.tools > 0 /\ shown.tools # Len(ss.tool_history)
              \/ shown.chats > 0 /\ shown.chats # Len(ss.chat_history)
           /\ Act(ss, Render(ss), Op("lost", "", FALSE, <<>>, NoReply))

\* History view, Back: src/app.py 273-283.
Back ==
    /\ pc = "idle"
    /\ LET ss == SessionInit(session_state)
       IN  /\ ss.page = "History"
           /\ ss.selected_item # None
           /\ "feature" \in DOMAIN ss.selected_item
           /\ Act(ss, Went(ss, "Dashboard", FALSE), Op("back", "Dashboard", FALSE, <<>>, NoReply))

\* ChatHistory view, Back to Chat: src/app.py 290-298.
BackToChat ==
    /\ pc = "idle"
    /\ LET ss == SessionInit(session_state)
       IN  /\ ss.page = "ChatHistory"
           /\ ss.selected_item # None
           /\ "messages" \in DOMAIN ss.selected_item
           /\ Act(ss, Went(ss, "Chat", FALSE), Op("back_chat", "Chat", FALSE, <<>>, NoReply))

\* Dashboard, Generate Investor Pitch: src/app.py 171-265.  The run renders the
\* Dashboard, insight request included, and then makes the pitch request.
GeneratePitch ==
    /\ pc = "idle"
    /\ LET ss == SessionInit(session_state)
       IN  /\ ss.page = "Dashboard"
           /\ Len(ss.tool_history) + Len(ss.chat_history) > 0
           /\ Act(ss, Run(ss, FALSE, Render(ss).made + 1, FALSE),
                  Op("pitch", "", FALSE, <<>>, NoReply))

\* A tool form submitted on its page; the record is appended after the output exists.
ToolRun(feature, user_input, output, o) ==
    /\ pc = "idle"
    /\ LET ss == SessionInit(session_state)
       IN  /\ ss.page = feature
           /\ Items(ss) < MaxItems
           /\ Act(ss, Run(save_tool_history(ss, feature, user_input, output),
                          FALSE, 1, FALSE),
                  Op("tool", feature, FALSE, user_input, o))

\* src/app.py 305-314
Campaign ==
    \E product \in ToolInputs, audience \in ToolInputs, o \in Outcomes :
        LET prompt == <<"Create marketing campaign for">> \o product
                        \o <<"targeting">> \o audience
        IN  ToolRun("Campaign", prompt, safe_groq(o), o)

\* src/app.py 319-328
Sales ==
    \E product \in ToolInputs, persona \in ToolInputs, o \in Outcomes :
        LET prompt == <<"Create sales pitch for">> \o product
                        \o <<"targeting">> \o persona
        IN  ToolRun("Sales", prompt, safe_groq(o), o)

\* src/app.py 333-340
Lead ==
    \E description \in ToolInputs, o \in Outcomes :
        ToolRun("Lead", description, LeadOutput(safe_hf(o)), o)

\* src/app.py 345-352
Summary ==
    \E content \in ToolInputs, o \in Outcomes :
        ToolRun("Summary", content, safe_groq(o), o)

\* src/app.py 357-364
Research ==
    \E query \in ToolInputs, o \in Outcomes :
        ToolRun("Research", query, safe_groq(o), o)

\* send that repeats a failed request once.
send_Retries(ss, user_input, o) ==
    IF Truthy(user_input)
    THEN LET asked == [ss EXCEPT !.current_chat =
                          Append(@, [role |-> "user", content |-> user_input])]
             answered == [asked EXCEPT !.current_chat =
                          Append(@, [role |-> "assistant", content |-> safe_groq(o)])]
         IN  [Run(answered, TRUE, IF Failed(o) THEN 2 ELSE 1, FALSE)
                 EXCEPT !.context = Flatten(asked.current_chat)]
    ELSE Run(ss, FALSE, 0, FALSE)

\* send that appends no reply when the request failed.
send_SkipsFailedReply(ss, user_input, o) ==
    IF Truthy(user_input)
    THEN LET asked == [ss EXCEPT !.current_chat =
                          Append(@, [role |-> "user", content |-> user_input])]
             answered == [asked EXCEPT !.current_chat =
                          Append(@, [role |-> "assistant", content |-> safe_groq(o)])]
         IN  [Run(IF Failed(o) THEN asked ELSE answered, TRUE, 1, FALSE)
                 EXCEPT !.context = Flatten(asked.current_chat)]
    ELSE Run(ss, FALSE, 0, FALSE)

\* send without the test of user_input.
send_Unguarded(ss, user_input, o) ==
    LET asked == [ss EXCEPT !.current_chat =
                     Append(@, [role |-> "user", content |-> user_input])]
        answered == [asked EXCEPT !.current_chat =
                     Append(@, [role |-> "assistant", content |-> safe_groq(o)])]
    IN  [Run(answered, TRUE, 1, FALSE) EXCEPT !.context = Flatten(asked.current_chat)]

\* The Send branch of the Chat view: src/app.py 372-378.  The request is made
\* with the transcript that already holds the user's message.
send(ss, user_input, o) ==
    IF Truthy(user_input)
    THEN LET asked == [ss EXCEPT !.current_chat =
                          Append(@, [role |-> "user", content |-> user_input])]
             answered == [asked EXCEPT !.current_chat =
                          Append(@, [role |-> "assistant", content |-> safe_groq(o)])]
         IN  [Run(answered, TRUE, 1, FALSE) EXCEPT !.context = Flatten(asked.current_chat)]
    ELSE Run(ss, FALSE, 0, FALSE)

\* Chat view, Send: src/app.py 369-378.
Send ==
    /\ pc = "idle"
    /\ LET ss == SessionInit(session_state)
       IN  /\ ss.page = "Chat"
           /\ \E user_input \in ChatInputs, o \in Outcomes :
                 /\ Truthy(user_input) => Items(ss) < MaxItems
                 /\ Act(ss, send(ss, user_input, o),
                        Op("send", "", FALSE, user_input,
                           IF Truthy(user_input) THEN o ELSE NoReply))

\* Chat view, Save Chat: src/app.py 379-384.
SaveChat ==
    /\ pc = "idle"
    /\ LET ss == SessionInit(session_state)
       IN  /\ ss.page = "Chat"
           /\ Act(ss, Run(save_chat_history(ss), FALSE, 0, FALSE),
                  Op("save", "", FALSE, <<>>, NoReply))

\* The clock passes into the next month while the UI waits.
Tick ==
    /\ pc = "idle"
    /\ now < Len(Months)
    /\ now' = now + 1
    /\ last' = Op("tick", "", FALSE, <<>>, NoReply)
    /\ UNCHANGED <<session_state, pc, shown, calls, fault, context, dashboard>>

Next ==
    \/ Start
    \/ Rerun
    \/ ClickNav
    \/ ClickTool
    \/ ClickChat
    \/ ClickLost
    \/ Back
    \/ BackToChat
    \/ GeneratePitch
    \/ Campaign
    \/ Sales
    \/ Lead
    \/ Summary
    \/ Research
    \/ Send
    \/ SaveChat
    \/ Tick

Spec == Init /\ [][Next]_vars

----------------------------------------------------------------------------
(* go called with any target and flag: the contract of src/app.py 124-129     *)
(* beyond the calls the script itself makes (all of them with valid targets). *)

Targets == VALID_PAGES \cup {"Settings", "dashboard"}

GoCall ==
    /\ pc = "idle"
    /\ \E page \in Targets, keep \in BOOLEAN :
          LET g == go(session_state, page, keep)
          IN  /\ session_state' = g.ss
              /\ pc' = IF g.rerun THEN "rerun" ELSE pc
              /\ calls' = 0
              /\ last' = Op("go", page, keep, <<>>, NoReply)
              /\ UNCHANGED <<shown, now, fault, context, dashboard>>

\* The session around the calls: one tool and the chat fill the histories, the
\* sidebar selects from them, and go does all the navigation.
NextGo ==
    \/ Start
    \/ Rerun
    \/ ClickTool
    \/ ClickChat
    \/ Campaign
    \/ Send
    \/ SaveChat
    \/ GoCall

SpecGo == Init /\ [][NextGo]_vars

----------------------------------------------------------------------------
(* The intent classifier over the texts the completion service can return *)

LeadWords == {"High", "Medium", "Low", "Intent", "Higher", "high"}

LeadTexts ==
    {<<>>} \cup {<<w>> : w \in LeadWords} \cup {<<v, w>> : v \in LeadWords, w \in LeadWords}

LeadOutcomes ==
    {[kind |-> "choices", text |-> t] : t \in LeadTexts}
        \cup {[kind |-> "error", text |-> t] : t \in {<<"quota">>, <<"High", "load">>}}
        \cup {[kind |-> "other", text |-> <<>>], [kind |-> "raise", text |-> <<"timeout">>]}

InitLead ==
    /\ Init
    /\ session_state = [page |-> "Lead"]

LeadAny ==
    \E description \in ToolInputs, o \in LeadOutcomes :
        ToolRun("Lead", description, LeadOutput(safe_hf(o)), o)

NextLead ==
    \/ Start
    \/ LeadAny

SpecLead == InitLead /\ [][NextLead]_vars

----------------------------------------------------------------------------
(* The Dashboard analytics over sessions that already hold histories *)

DashFeatures == {"Campaign", "Sales", "Lead"}

DashTools ==
    {[feature |-> f, input |-> <<"crm">>, output |-> <<"ok">>, month |-> Months[m]] :
        f \in DashFeatures, m \in 1..Len(Months)}

DashChats ==
    {[messages |-> <<[role |-> "user", content |-> <<"hi">>],
                     [role |-> "assistant", content |-> <<"ok">>]>>,
      month |-> Months[m]] : m \in 1..Len(Months)}

MonthIndex(month) == CHOOSE m \in 1..Len(Months) : Months[m] = month

\* Records are stamped by a clock that does not run backwards.
Stamped(history, clock) ==
    /\ \A i \in 1..Len(history) : MonthIndex(history[i].month) <= clock
    /\ \A i \in 1..(Len(history) - 1) :
          MonthIndex(history[i].month) <= MonthIndex(history[i + 1].month)

Histories(records) == UNION {[1..n -> records] : n \in 0..MaxRecords}

InitDash ==
    /\ now \in 1..Len(Months)
    /\ \E tools \in Histories(DashTools), chats \in Histories(DashChats) :
          /\ Stamped(tools, now)
          /\ Stamped(chats, now)
          /\ session_state = [page |-> "Dashboard", tool_history |-> tools,
                              chat_history |-> chats, current_chat |-> <<>>,
                              selected_item |-> None]
    /\ pc = "start"
    /\ shown = [tools |-> 0, chats |-> 0]
    /\ calls = 0
    /\ fault = FALSE
    /\ context = <<>>
    /\ dashboard = NoView
    /\ last = Op("start", "Dashboard", FALSE, <<>>, NoReply)

NextDash ==
    \/ Start
    \/ GeneratePitch
    \/ Tick

SpecDash == InitDash /\ [][NextDash]_vars

----------------------------------------------------------------------------
(* Properties *)

Range(s) == {s[i] : i \in 1..Len(s)}

Final(s) == s[Len(s)]

\* The words by which an output shows as an error: the prefixes of
\* groq_generate, safe_groq and safe_hf.
ErrorMarkers == {"Groq API Error:", "Unexpected response:", "Exception occurred:", "Error:"}

IsErrorText(text) == \E i \in 1..Len(text) : text[i] \in ErrorMarkers

\* C1: once the script has run, page is always one of VALID_PAGES, and a
\* session that started from a stored page outside the set is on Dashboard
\* when its first run routes.
C1_PageAlwaysValid ==
    pc # "start" =>
        /\ session_state.page \in VALID_PAGES
        /\ (last.op = "start" /\ last.arg # "" /\ last.arg \notin VALID_PAGES)
              => session_state.page = DEFAULT_PAGE

C1_Witness ==
    /\ pc = "idle"
    /\ last.op = "start"
    /\ last.arg = "Settings"
    /\ session_state.page = "Dashboard"

\* C2: a go call with a target outside VALID_PAGES changes nothing of the
\* session state (page and selected_item included), queues no rerun and raises
\* nothing, whatever keep is.
C2_InvalidGoIsNoOp ==
    [][(pc = "idle" /\ last'.op = "go" /\ last'.arg \notin VALID_PAGES)
          => (session_state' = session_state /\ pc' = "idle" /\ fault' = fault)]_vars

C2_Witness ==
    /\ pc = "idle"
    /\ last.op = "go"
    /\ last.arg = "Settings"
    /\ ~last.keep
    /\ session_state.page = "History"
    /\ session_state.selected_item # None

\* C3: a go call with a valid target sets page to the target; selected_item is
\* None afterwards when keep is false and unchanged when keep is true.  A
\* history selection leaves the selected record on the History page.
C3_ValidGo ==
    [][/\ (pc = "idle" /\ last'.op = "go" /\ last'.arg \in VALID_PAGES)
            => /\ session_state'.page = last'.arg
               /\ session_state'.selected_item =
                     IF last'.keep THEN session_state.selected_item ELSE None
       /\ (pc = "idle" /\ last'.op = "select_tool")
            => /\ session_state'.page = "History"
               /\ session_state'.selected_item \in Range(session_state.tool_history)
      ]_vars

C3_Witness ==
    /\ last.op = "go"
    /\ last.arg = "History"
    /\ last.keep
    /\ session_state.page = "History"
    /\ session_state.selected_item \in Range(session_state.tool_history)

\* C4: selected_item, when set, is a record of tool_history or of chat_history.
C4_SelectedIsInHistory ==
    pc # "start" =>
        \/ session_state.selected_item = None
        \/ session_state.selected_item \in
              Range(session_state.tool_history) \cup Range(session_state.chat_history)

C4_Witness ==
    /\ pc = "idle"
    /\ session_state.page = "ChatHistory"
    /\ session_state.selected_item \in Range(session_state.chat_history)
    /\ Len(session_state.tool_history) = 1

\* C5: in every step each history before the step is a prefix of the history
\* after it.
C5_AppendOnly ==
    [][pc # "start" =>
          /\ IsPrefix(session_state.tool_history, session_state'.tool_history)
          /\ IsPrefix(session_state.chat_history, session_state'.chat_history)]_vars

C5_Witness ==
    /\ pc = "idle"
    /\ Len(session_state.chat_history) = 1
    /\ Len(session_state.chat_history[1].messages) = 2
    /\ Len(session_state.current_chat) = 2

\* C6: Save Chat with a non-empty current_chat appends exactly one record whose
\* messages are the whole current_chat, and leaves current_chat empty.
C6_SaveMovesTranscript ==
    [][(pc = "idle" /\ last'.op = "save" /\ Truthy(session_state.current_chat))
          => /\ Len(session_state'.chat_history) = Len(session_state.chat_history) + 1
             /\ IsPrefix(session_state.chat_history, session_state'.chat_history)
             /\ Final(session_state'.chat_history).messages = session_state.current_chat
             /\ session_state'.current_chat = <<>>]_vars

C6_Witness ==
    /\ pc = "idle"
    /\ last.op = "save"
    /\ Len(session_state.chat_history) = 1
    /\ Len(session_state.chat_history[1].messages) = 4
    /\ session_state.current_chat = <<>>

\* C7: Save Chat with an empty current_chat changes nothing of the session
\* state, and every record of chat_history has at least one message.
C7_EmptySaveIsNoOp ==
    /\ [](pc # "start" =>
            \A i \in 1..Len(session_state.chat_history) :
                Len(session_state.chat_history[i].messages) > 0)
    /\ [][(pc = "idle" /\ last'.op = "save" /\ ~Truthy(session_state.current_chat))
            => session_state' = session_state]_vars

C7_Witness ==
    /\ pc = "idle"
    /\ last.op = "save"
    /\ session_state.chat_history = <<>>
    /\ session_state.current_chat = <<>>

\* C8: after a tool run whose completion request failed, the run ended without
\* an exception and the output of the record it appended is an error text.
C8_FailedRunRecordsError ==
    (pc = "idle" /\ last.op = "tool" /\ Failed(last.o))
        => /\ ~fault
           /\ IsErrorText(Final(session_state.tool_history).output)

\* The text hf_lead_score classified in the last Lead run, and the output recorded.
LeadText == groq_generate(last.o).value
LeadRecorded == Final(session_state.tool_history).output
LeadRan == pc = "idle" /\ last.op = "tool" /\ last.arg = "Lead"

High90 == LeadOutput([score |-> 90, intent |-> <<"High", "Intent">>])
Medium65 == LeadOutput([score |-> 65, intent |-> <<"Medium", "Intent">>])
Low30 == LeadOutput([score |-> 30, intent |-> <<"Low", "Intent">>])

\* C9 as stated: High Intent gives 90, any text containing Medium gives 65,
\* a text containing neither High nor Medium gives 30, and nothing is raised.
C9_AsStated ==
    LeadRan =>
        /\ LeadText = <<"High", "Intent">> => LeadRecorded = High90
        /\ In("Medium", LeadText) => LeadRecorded = Medium65
        /\ (~In("High", LeadText) /\ ~In("Medium", LeadText)) => LeadRecorded = Low30
        /\ ~fault

\* C9 amended: a text containing High gives 90, a text containing Medium and
\* not High gives 65, a text containing neither gives 30, and nothing is raised.
C9_HighFirst ==
    LeadRan =>
        /\ In("High", LeadText) => LeadRecorded = High90
        /\ (In("Medium", LeadText) /\ ~In("High", LeadText)) => LeadRecorded = Medium65
        /\ (~In("High", LeadText) /\ ~In("Medium", LeadText)) => LeadRecorded = Low30
        /\ ~fault

C9_Witness ==
    /\ LeadRan
    /\ last.o.kind = "choices"
    /\ last.o.text = <<"Medium", "High">>
    /\ LeadRecorded = High90

\* The messages a step appended to current_chat.
Appended == SubSeq(session_state'.current_chat, Len(session_state.current_chat) + 1,
                   Len(session_state'.current_chat))

UserMessages(msgs) == {i \in 1..Len(msgs) : msgs[i].role = "user"}

SendsOneUserMessage ==
    /\ IsPrefix(session_state.current_chat, session_state'.current_chat)
    /\ Cardinality(UserMessages(Appended)) = 1
    /\ Appended[1] = [role |-> "user", content |-> last'.text]

\* C10 as stated: a Send with empty or whitespace-only content changes nothing
\* and makes no request; any other Send appends one user message with the content.
C10_AsStated ==
    [][(pc = "idle" /\ last'.op = "send")
          => IF IsBlank(last'.text)
             THEN session_state'.current_chat = session_state.current_chat /\ calls' = 0
             ELSE SendsOneUserMessage]_vars

\* C10 amended: a Send with empty content changes nothing and makes no request;
\* a Send with any non-empty content, whitespace-only included, appends one
\* user message with that content and makes one request.
C10_EmptySendIsNoOp ==
    [][(pc = "idle" /\ last'.op = "send")
          => IF last'.text = <<>>
             THEN session_state' = session_state /\ calls' = 0
             ELSE SendsOneUserMessage /\ calls' = 1]_vars

C10_Witness ==
    /\ last.op = "send"
    /\ last.text = <<" ">>
    /\ calls = 1
    /\ Len(session_state.current_chat) = 2
    /\ session_state.current_chat[1] = [role |-> "user", content |-> <<" ">>]

\* C11 as stated: no user action makes more than one completion request before
\* the UI waits again.
C11_AsStated == calls <= 1

\* C11 amended: every user action makes at most one completion request, except
\* Generate Investor Pitch, whose run makes exactly two (the Dashboard's insight
\* request and the pitch request).  The clock leaves the count as it is.
C11_OneExceptPitch ==
    /\ calls <= 2
    /\ last.op \notin {"pitch", "tick"} => calls <= 1
    /\ last.op = "pitch" => calls = 2

C11_Witness ==
    /\ pc = "idle"
    /\ last.op = "pitch"
    /\ calls = 2

Alternates(msgs) ==
    /\ Len(msgs) % 2 = 0
    /\ \A i \in 1..Len(msgs) : msgs[i].role = IF i % 2 = 1 THEN "user" ELSE "assistant"

\* C12: an accepted Send appends the user's message and then one assistant
\* message (an error text when the request failed), and the request's context
\* is the flattened transcript including the user's message; so current_chat and
\* every saved transcript alternate user, assistant and have even length.
C12_SendAppendsPair ==
    /\ [](pc # "start" =>
            /\ Alternates(session_state.current_chat)
            /\ \A i \in 1..Len(session_state.chat_history) :
                  Alternates(session_state.chat_history[i].messages))
    /\ [][(pc = "idle" /\ last'.op = "send" /\ Truthy(last'.text))
            => LET asked == Append(session_state.current_chat,
                                   [role |-> "user", content |-> last'.text])
               IN  /\ Len(session_state'.current_chat) = Len(asked) + 1
                   /\ IsPrefix(asked, session_state'.current_chat)
                   /\ Final(session_state'.current_chat).role = "assistant"
                   /\ Failed(last'.o) => IsErrorText(Final(session_state'.current_chat).content)
                   /\ context' = Flatten(asked)]_vars

C12_Witness ==
    /\ pc = "idle"
    /\ Len(session_state.current_chat) = 4
    /\ IsErrorText(session_state.current_chat[2].content)
    /\ ~IsErrorText(session_state.current_chat[4].content)

ToolPages == {"Campaign", "Sales", "Lead", "Summary", "Research"}

Matching(data, month) == {i \in 1..Len(data) : data[i].month = month}

Nth(data, month, j) ==
    CHOOSE i \in Matching(data, month) :
        Cardinality({h \in Matching(data, month) : h <= i}) = j

\* C14: the Dashboard's monthly_usage holds exactly the tool records of the
\* current month, in append order, followed by the chat records of the current
\* month, in append order.
C14_MonthlyUsage ==
    dashboard # NoView =>
        LET mu == dashboard.monthly_usage
            m  == dashboard.current_month
            nt == Cardinality(Matching(session_state.tool_history, m))
            nc == Cardinality(Matching(session_state.chat_history, m))
        IN  /\ Len(mu) = nt + nc
            /\ \A j \in 1..Len(mu) : mu[j].month = m
            /\ \A j \in 1..nt : mu[j] = session_state.tool_history[
                                            Nth(session_state.tool_history, m, j)]
            /\ \A j \in 1..nc : mu[nt + j] = session_state.chat_history[
                                            Nth(session_state.chat_history, m, j)]

C14_Witness ==
    /\ dashboard # NoView
    /\ dashboard.current_month = "2024-04"
    /\ Len(session_state.tool_history) = 2
    /\ session_state.tool_history[1].month = "2024-03"
    /\ Len(session_state.chat_history) = 2
    /\ session_state.chat_history[1].month = "2024-03"
    /\ Len(dashboard.monthly_usage) = 2
    /\ dashboard.monthly_usage[1] = session_state.tool_history[2]
    /\ dashboard.monthly_usage[2] = session_state.chat_history[2]

\* C15: a step that changes current_chat starts and ends on the Chat page.
C15_ChatChangesOnChat ==
    [][(pc # "start" /\ session_state'.current_chat # session_state.current_chat)
          => (session_state.page = "Chat" /\ session_state'.page = "Chat")]_vars

C15_Witness ==
    /\ pc = "idle"
    /\ session_state.page = "Chat"
    /\ last.op = "send"
    /\ Len(session_state.tool_history) = 1
    /\ Len(session_state.current_chat) = 2

\* C16: a tool submit appends exactly one record, with the page as its feature
\* and a non-empty output; no other step changes tool_history.
C16_OneRecordPerToolRun ==
    [][pc # "start" =>
          IF pc = "idle" /\ last'.op = "tool"
          THEN /\ Len(session_state'.tool_history) = Len(session_state.tool_history) + 1
               /\ IsPrefix(session_state.tool_history, session_state'.tool_history)
               /\ session_state.page \in ToolPages
               /\ Final(session_state'.tool_history).feature = session_state.page
               /\ Truthy(Final(session_state'.tool_history).output)
          ELSE session_state'.tool_history = session_state.tool_history]_vars

C16_Witness ==
    /\ pc = "idle"
    /\ last.op = "tool"
    /\ session_state.page = "Research"
    /\ Len(session_state.tool_history) = 2
    /\ session_state.tool_history[1].feature = "Lead"
    /\ session_state.tool_history[2].feature = "Research"

\* C17: a click on the k-th tool entry the sidebar lists (k from 1) selects the
\* record that entry shows, the k-th from the end of the list it was drawn from,
\* and opens History; likewise for the chat entries and ChatHistory.
C17_SelectsListedEntry ==
    [][/\ (pc = "idle" /\ last'.op = "select_tool")
            => \E k \in 1..shown.tools :
                  /\ last'.arg = ToString(k)
                  /\ session_state'.selected_item =
                        session_state.tool_history[shown.tools + 1 - k]
                  /\ session_state'.page = "History"
       /\ (pc = "idle" /\ last'.op = "select_chat")
            => \E k \in 1..shown.chats :
                  /\ last'.arg = ToString(k)
                  /\ session_state'.selected_item =
                        session_state.chat_history[shown.chats + 1 - k]
                  /\ session_state'.page = "ChatHistory"
      ]_vars

RECURSIVE SumOver(_, _)
SumOver(f, S) ==
    IF S = {} THEN 0
    ELSE LET x == CHOOSE y \in S : TRUE IN f[x] + SumOver(f, S \ {x})

FirstIndex(tool_data, f) ==
    CHOOSE i \in 1..Len(tool_data) :
        /\ tool_data[i].feature = f
        /\ \A h \in 1..(i - 1) : tool_data[h].feature # f

C19_SelectionMatchesPage ==
    pc = "idle" =>
        /\ session_state.selected_item # None
              <=> session_state.page \in {"History", "ChatHistory"}
        /\ session_state.page = "History"
              => "feature" \in DOMAIN session_state.selected_item
        /\ session_state.page = "ChatHistory"
              => "messages" \in DOMAIN session_state.selected_item

C19_Witness ==
    /\ pc = "idle"
    /\ last.op = "start"
    /\ last.arg = "History"
    /\ session_state.page = "Dashboard"
    /\ session_state.selected_item = None

Navigations == {"nav", "select_tool", "select_chat", "back", "back_chat", "lost"}

\* C20: navigation, history selection and the reruns they queue leave both
\* histories and current_chat as they are.
C20_NavigationKeepsData ==
    [][((pc = "idle" /\ last'.op \in Navigations) \/ pc = "rerun")
          => /\ session_state'.tool_history = session_state.tool_history
             /\ session_state'.chat_history = session_state.chat_history
             /\ session_state'.current_chat = session_state.current_chat]_vars

C20_Witness ==
    /\ pc = "idle"
    /\ last.op = "back_chat"
    /\ session_state.page = "Chat"
    /\ Len(session_state.current_chat) = 2

====
